---- MODULE Spec2Model ----
(***************************************************************************)
(* The Flask handlers of src/src/app.py over the MySQL store they talk to. *)
(* The store is the two tables init_database creates; every handler is one *)
(* action, computed by an operator that follows the handler's try/except   *)
(* structure statement by statement.                                       *)
(***************************************************************************)
EXTENDS Integers, Sequences, FiniteSets, TLC

\* ------------------------------------------------------------- bounds
\* Ids the AUTO_INCREMENT counter may hand out before creation stops.
MaxId == 2
\* Rows the handlers may add to the logs table.
MaxNewLogs == 1
\* Rows the logs table already holds when the process starts.
InitLogRows == 100

\* -------------------------------------------------- program constants
\* request.args.get('limit', 100, type=int)
DefaultLimit == 100
\* name VARCHAR(100)
NameMax == 100
\* email VARCHAR(100)
EmailMax == 100

\* ------------------------------------------------------------- values
\* A JSON value read with data.get(...): None, or a string (a sequence of
\* characters).
None == [null |-> TRUE, s |-> <<>>]
Str(s) == [null |-> FALSE, s |-> s]
\* Python truthiness of such a value: None and '' are falsy.
Truthy(v) == ~v.null /\ v.s # <<>>

\* A string one character longer than the name column.
LongText == [i \in 1..(NameMax + 1) |-> "x"]

\* What MySQL keeps of a string stored into VARCHAR(max) outside strict mode.
Truncate(s, max) == IF Len(s) > max THEN SubSeq(s, 1, max) ELSE s

\* ---------------------------------------------------------- exceptions
\* An exception: its class, and whether str(e) contains 'Duplicate entry'.
Exc(cls, text) == [cls |-> cls, text |-> text]
NoExc == Exc("none", "")
ConnectFailed == Exc("OperationalError", "Can't connect to MySQL server")
ExecuteFailed == Exc("OperationalError", "Lost connection to MySQL server during query")
CommitFailed == Exc("OperationalError", "MySQL server has gone away")
DuplicateEntry == Exc("IntegrityError", "Duplicate entry for key 'email'")
ColumnNull == Exc("IntegrityError", "Column cannot be null")
DataTooLong == Exc("DataError", "Data too long for column")
SyntaxError == Exc("ProgrammingError", "You have an error in your SQL syntax")
BadRequest == Exc("BadRequest", "400 Bad Request")
LoggingFailed == Exc("OperationalError", "log_event failed")

\* A pattern that matches no message of the store.
NeverDuplicateEntry(e) == FALSE

\* "Duplicate entry" in str(e)
HasDuplicateEntry(e) == e = DuplicateEntry

\* -------------------------------------------------------------- store
\* The users table is a function from the ids in use to rows [name, email],
\* both strings; the logs table is the sequence of its rows [level, message]
\* in insertion order. strict is the server's sql_mode (STRICT_TRANS_TABLES on
\* or off), which the application never sets.

Ids == 1..(MaxId + 1)

EmailTaken(tbl, email, except) ==
    \E i \in DOMAIN tbl : i # except /\ tbl[i].email = email

\* An INSERT that binds its two parameters in the wrong order.
InsertUserSwapped(tbl, next, strictMode, name, email) ==
    IF EmailTaken(tbl, email, 0)
    THEN [exc |-> DuplicateEntry, users |-> tbl, lastrowid |-> 0, next |-> next]
    ELSE [exc |-> NoExc,
          users |-> [i \in DOMAIN tbl \cup {next} |->
                        IF i = next THEN [name |-> email, email |-> name] ELSE tbl[i]],
          lastrowid |-> next, next |-> next + 1]

\* INSERT INTO users (name, email) VALUES (%s, %s), name and email strings.
\* VARCHAR(100): a longer value is an error in strict mode and cut otherwise;
\* email UNIQUE: a second row with the email is error 1062 'Duplicate entry'.
\* lastrowid is the AUTO_INCREMENT value the row received.
InsertUser(tbl, next, strictMode, name, email) ==
    LET n == Truncate(name, NameMax)
        e == Truncate(email, EmailMax)
    IN  IF strictMode /\ (Len(name) > NameMax \/ Len(email) > EmailMax)
        THEN [exc |-> DataTooLong, users |-> tbl, lastrowid |-> 0, next |-> next]
        ELSE IF EmailTaken(tbl, e, 0)
        THEN [exc |-> DuplicateEntry, users |-> tbl, lastrowid |-> 0, next |-> next]
        ELSE [exc |-> NoExc,
              users |-> [i \in DOMAIN tbl \cup {next} |->
                            IF i = next THEN [name |-> n, email |-> e] ELSE tbl[i]],
              lastrowid |-> next, next |-> next + 1]

\* The string MySQL stores for a parameter bound to a NOT NULL VARCHAR(max)
\* column outside strict mode: NULL becomes '', a long value is cut.
Stored(v, max) == IF v.null THEN <<>> ELSE Truncate(v.s, max)

\* cursor.rowcount after an UPDATE: the rows CHANGED, not the rows matched
\* (pymysql.connect is called without CLIENT.FOUND_ROWS, lines 24-32).
ChangedRows(old, new) == IF old = new THEN 0 ELSE 1

\* UPDATE users SET name = %s, email = %s WHERE id = %s, name and email JSON
\* values. No matching row: nothing is evaluated. In strict mode NULL into a
\* NOT NULL column is error 1048 and a long value error 1406.
UpdateUser(tbl, strictMode, id, name, email) ==
    IF id \notin DOMAIN tbl
    THEN [exc |-> NoExc, users |-> tbl, rowcount |-> 0]
    ELSE LET new == [name |-> Stored(name, NameMax), email |-> Stored(email, EmailMax)]
         IN  IF strictMode /\ (name.null \/ email.null)
             THEN [exc |-> ColumnNull, users |-> tbl, rowcount |-> 0]
             ELSE IF strictMode /\ (Len(name.s) > NameMax \/ Len(email.s) > EmailMax)
             THEN [exc |-> DataTooLong, users |-> tbl, rowcount |-> 0]
             ELSE IF EmailTaken(tbl, new.email, id)
             THEN [exc |-> DuplicateEntry, users |-> tbl, rowcount |-> 0]
             ELSE [exc |-> NoExc,
                   users |-> [tbl EXCEPT ![id] = new],
                   rowcount |-> ChangedRows(tbl[id], new)]

\* A DELETE that reports a row affected whether or not one matched.
DeleteUserBlind(tbl, id) ==
    [users |-> [i \in DOMAIN tbl \ {id} |-> tbl[i]], rowcount |-> 1]

\* A soft delete: the row is reported deleted and stays in the table.
DeleteUserSoft(tbl, id) ==
    IF id \in DOMAIN tbl
    THEN [users |-> tbl, rowcount |-> 1]
    ELSE [users |-> tbl, rowcount |-> 0]

\* DELETE FROM users WHERE id = %s
DeleteUser(tbl, id) ==
    IF id \in DOMAIN tbl
    THEN [users |-> [i \in DOMAIN tbl \ {id} |-> tbl[i]], rowcount |-> 1]
    ELSE [users |-> tbl, rowcount |-> 0]

\* SELECT * FROM users WHERE id = %s, then fetchone(): the row, or nothing.
SelectUser(tbl, id) ==
    IF id \in DOMAIN tbl
    THEN [found |-> TRUE, id |-> id, name |-> tbl[id].name, email |-> tbl[id].email]
    ELSE [found |-> FALSE, id |-> id, name |-> <<>>, email |-> <<>>]

\* SELECT * FROM users ORDER BY created_at DESC, then fetchall(): the number
\* of rows is all the handler uses besides the rows themselves.
SelectUsers(tbl) == [i \in DOMAIN tbl |-> SelectUser(tbl, i)]

\* The rows of a sequence that satisfy a level filter, oldest first.
WithLevel(rows, level) == SelectSeq(rows, LAMBDA r : r.level = level)

\* An ORDER BY without its LIMIT.
NewestFirstAll(rows, n) == [i \in 1..Len(rows) |-> rows[Len(rows) + 1 - i]]

\* ORDER BY created_at DESC LIMIT n on rows given oldest first: the newest n.
NewestFirst(rows, n) ==
    LET k == IF n < Len(rows) THEN n ELSE Len(rows)
    IN  [i \in 1..k |-> rows[Len(rows) + 1 - i]]

\* SELECT * FROM logs [WHERE level = %s] ORDER BY created_at DESC LIMIT %s.
\* filtered says whether the WHERE clause is there. A negative LIMIT is a
\* syntax error (1064).
SelectLogs(tbl, filtered, level, limit) ==
    IF limit < 0
    THEN [exc |-> SyntaxError, rows |-> <<>>]
    ELSE [exc |-> NoExc,
          rows |-> NewestFirst(IF filtered THEN WithLevel(tbl, level) ELSE tbl, limit)]

\* INSERT INTO logs (level, message, instance_id) VALUES (%s, %s, %s)
InsertLog(tbl, level, message) ==
    Append(tbl, [level |-> level, message |-> message])

\* ------------------------------------------------------------ requests
\* What the environment decides about one request: where the store fails the
\* handler's own connection ("none": nowhere; "connect": get_db_connection
\* raises, the store is unreachable; "execute": cursor.execute raises;
\* "commit": conn.commit raises), and the same for the connection log_event
\* opens.
Faults == {"none", "connect", "execute", "commit"}

\* request.get_json(): "malformed" raises BadRequest; "empty" is a body for
\* which `not data` holds (null, {}); "object" is a non-empty JSON object read
\* with data.get('name') and data.get('email').
Body(kind, name, email) == [kind |-> kind, name |-> name, email |-> email]

\* A query argument: absent, or present with a text that int() accepts
\* (int = TRUE, n its value) or rejects.
NoLimit == [given |-> FALSE, int |-> FALSE, n |-> 0]
BadLimit == [given |-> TRUE, int |-> FALSE, n |-> 0]
Limit(n) == [given |-> TRUE, int |-> TRUE, n |-> n]
NoLevel == [given |-> FALSE, s |-> ""]
Level(s) == [given |-> TRUE, s |-> s]

\* request.args.get('limit', 100, type=int): the default when the argument
\* is absent or int() raises ValueError.
ParseLimit(arg) == IF arg.given /\ arg.int THEN arg.n ELSE DefaultLimit

Request(op, id, body, limit, level, fault) ==
    [op |-> op, id |-> id, body |-> body, limit |-> limit, level |-> level,
     fault |-> fault]
NoBody == Body("empty", None, None)

\* ----------------------------------------------------------- log_event
\* log_event without its except clause: a failure inside it reaches the caller.
log_event_raising(tbl, level, message, lf) ==
    IF lf = "connect"
    THEN [logs |-> tbl, conn |-> "none", raised |-> TRUE]
    ELSE IF lf \in {"execute", "commit"}
    THEN [logs |-> tbl, conn |-> "open", raised |-> TRUE]
    ELSE [logs |-> InsertLog(tbl, level, message), conn |-> "closed", raised |-> FALSE]

\* log_event(level, message) on the logs table tbl when the store fails its
\* connection at lf: the table afterwards, the state of the connection it
\* opened when it returns ("none": never acquired), and whether it raised.
\* The except clause swallows every failure; conn.close() is reached only
\* when nothing failed.
log_event(tbl, level, message, lf) ==
    IF lf = "connect"
    THEN [logs |-> tbl, conn |-> "none", raised |-> FALSE]
    ELSE IF lf \in {"execute", "commit"}
    THEN [logs |-> tbl, conn |-> "open", raised |-> FALSE]
    ELSE [logs |-> InsertLog(tbl, level, message), conn |-> "closed", raised |-> FALSE]

\* ------------------------------------------------------------ try bodies
\* How a handler's try block ends: it returns a response without logging
\* ("return"), it reaches its log_event call and then returns ("log"), or an
\* exception leaves it ("raise"). users and nextId are the committed users
\* table and the AUTO_INCREMENT counter afterwards, conn the state of the
\* handler's own connection, events the calls made in order.
Returns(status, body, tbl, next, conn, events) ==
    [kind |-> "return", status |-> status, body |-> body, level |-> "", message |-> "",
     exc |-> NoExc, users |-> tbl, nextId |-> next, conn |-> conn, events |-> events]
Logs(level, message, status, body, tbl, next, conn, events) ==
    [kind |-> "log", status |-> status, body |-> body, level |-> level,
     message |-> message, exc |-> NoExc, users |-> tbl, nextId |-> next,
     conn |-> conn, events |-> events]
Raises(exc, tbl, next, conn, events) ==
    [kind |-> "raise", status |-> 0, body |-> [error |-> ""], level |-> "", message |-> "",
     exc |-> exc, users |-> tbl, nextId |-> next, conn |-> conn, events |-> events]

Error(text) == [error |-> text]

\* home(): log_event, then the welcome document.
home_body(tbl, next) ==
    Logs("INFO", "Home endpoint accessed", 200,
         [message |-> "Welcome to Two-Tier Web Application", status |-> "healthy"],
         tbl, next, "none", <<>>)

\* info(): the static document.
info_body(tbl, next) ==
    Returns(200, [application |-> "Two-Tier Web Application", version |-> "1.0.0"],
            tbl, next, "none", <<>>)

\* A health() that reports healthy without looking at the connection.
health_body_blind(tbl, next, fault) ==
    Logs("INFO", "Health check passed", 200,
         [status |-> "healthy", database |-> "connected"],
         tbl, next, "closed", <<"get_db_connection", "close">>)

\* health(): acquire a connection and close it.
health_body(tbl, next, fault) ==
    IF fault = "connect"
    THEN Raises(ConnectFailed, tbl, next, "none", <<"get_db_connection">>)
    ELSE Logs("INFO", "Health check passed", 200,
              [status |-> "healthy", database |-> "connected"],
              tbl, next, "closed", <<"get_db_connection", "close">>)

\* get_users()
get_users_body(tbl, next, fault) ==
    IF fault = "connect"
    THEN Raises(ConnectFailed, tbl, next, "none", <<"get_db_connection">>)
    ELSE IF fault = "execute"
    THEN Raises(ExecuteFailed, tbl, next, "open", <<"get_db_connection", "execute">>)
    ELSE Logs("INFO", "Retrieved N users", 200,
              [users |-> SelectUsers(tbl), count |-> Cardinality(DOMAIN tbl)],
              tbl, next, "closed", <<"get_db_connection", "execute", "close">>)

\* A create_user that acquires its connection before it validates the body.
create_user_body_connect_first(tbl, next, strictMode, body, fault) ==
    IF body.kind = "malformed"
    THEN Raises(BadRequest, tbl, next, "none", <<>>)
    ELSE IF fault = "connect"
    THEN Raises(ConnectFailed, tbl, next, "none", <<"get_db_connection">>)
    ELSE IF body.kind = "empty"
    THEN Returns(400, Error("No data provided"), tbl, next, "open",
                 <<"get_db_connection">>)
    ELSE Returns(400, Error("Name and email are required"), tbl, next, "open",
                 <<"get_db_connection">>)

\* create_user(): a failed or missing commit leaves the table as it was (the
\* transaction is rolled back when the connection goes away); the counter is
\* not rolled back.
create_user_body(tbl, next, strictMode, body, fault) ==
    IF body.kind = "malformed"
    THEN Raises(BadRequest, tbl, next, "none", <<>>)
    ELSE IF body.kind = "empty"
    THEN Returns(400, Error("No data provided"), tbl, next, "none", <<>>)
    ELSE IF ~Truthy(body.name) \/ ~Truthy(body.email)
    THEN Returns(400, Error("Name and email are required"), tbl, next, "none", <<>>)
    ELSE IF fault = "connect"
    THEN Raises(ConnectFailed, tbl, next, "none", <<"get_db_connection">>)
    ELSE IF fault = "execute"
    THEN Raises(ExecuteFailed, tbl, next, "open", <<"get_db_connection", "execute">>)
    ELSE LET ins == InsertUser(tbl, next, strictMode, body.name.s, body.email.s)
         IN  IF ins.exc # NoExc
             THEN Raises(ins.exc, tbl, next, "open", <<"get_db_connection", "execute">>)
             ELSE IF fault = "commit"
             THEN Raises(CommitFailed, tbl, ins.next, "open",
                         <<"get_db_connection", "execute", "commit">>)
             ELSE Logs("INFO", "Created user", 201,
                       [message |-> "User created successfully", user_id |-> ins.lastrowid],
                       ins.users, ins.next, "closed",
                       <<"get_db_connection", "execute", "commit", "close">>)

\* get_user(user_id)
get_user_body(tbl, next, id, fault) ==
    IF fault = "connect"
    THEN Raises(ConnectFailed, tbl, next, "none", <<"get_db_connection">>)
    ELSE IF fault = "execute"
    THEN Raises(ExecuteFailed, tbl, next, "open", <<"get_db_connection", "execute">>)
    ELSE LET user == SelectUser(tbl, id)
         IN  IF ~user.found
             THEN Returns(404, Error("User not found"), tbl, next, "closed",
                          <<"get_db_connection", "execute", "close">>)
             ELSE Logs("INFO", "Retrieved user", 200, [user |-> user],
                       tbl, next, "closed", <<"get_db_connection", "execute", "close">>)

\* update_user(user_id)
update_user_body(tbl, next, strictMode, id, body, fault) ==
    IF body.kind = "malformed"
    THEN Raises(BadRequest, tbl, next, "none", <<>>)
    ELSE IF body.kind = "empty"
    THEN Returns(400, Error("No data provided"), tbl, next, "none", <<>>)
    ELSE IF fault = "connect"
    THEN Raises(ConnectFailed, tbl, next, "none", <<"get_db_connection">>)
    ELSE IF fault = "execute"
    THEN Raises(ExecuteFailed, tbl, next, "open", <<"get_db_connection", "execute">>)
    ELSE LET upd == UpdateUser(tbl, strictMode, id, body.name, body.email)
         IN  IF upd.exc # NoExc
             THEN Raises(upd.exc, tbl, next, "open", <<"get_db_connection", "execute">>)
             ELSE IF upd.rowcount = 0
             THEN Returns(404, Error("User not found"), tbl, next, "closed",
                          <<"get_db_connection", "execute", "close">>)
             ELSE IF fault = "commit"
             THEN Raises(CommitFailed, tbl, next, "open",
                         <<"get_db_connection", "execute", "commit">>)
             ELSE Logs("INFO", "Updated user", 200,
                       [message |-> "User updated successfully"],
                       upd.users, next, "closed",
                       <<"get_db_connection", "execute", "commit", "close">>)

\* A delete_user on an autocommit connection: the DELETE is committed when
\* execute returns, before rowcount is looked at and commit is called.
delete_user_body_autocommit(tbl, next, id, fault) ==
    IF fault = "connect"
    THEN Raises(ConnectFailed, tbl, next, "none", <<"get_db_connection">>)
    ELSE IF fault = "execute"
    THEN Raises(ExecuteFailed, tbl, next, "open", <<"get_db_connection", "execute">>)
    ELSE LET del == DeleteUser(tbl, id)
         IN  IF del.rowcount = 0
             THEN Returns(404, Error("User not found"), tbl, next, "closed",
                          <<"get_db_connection", "execute", "close">>)
             ELSE IF fault = "commit"
             THEN Raises(CommitFailed, del.users, next, "open",
                         <<"get_db_connection", "execute", "commit">>)
             ELSE Logs("INFO", "Deleted user", 200,
                       [message |-> "User deleted successfully"],
                       del.users, next, "closed",
                       <<"get_db_connection", "execute", "commit", "close">>)

\* delete_user(user_id)
delete_user_body(tbl, next, id, fault) ==
    IF fault = "connect"
    THEN Raises(ConnectFailed, tbl, next, "none", <<"get_db_connection">>)
    ELSE IF fault = "execute"
    THEN Raises(ExecuteFailed, tbl, next, "open", <<"get_db_connection", "execute">>)
    ELSE LET del == DeleteUser(tbl, id)
         IN  IF del.rowcount = 0
             THEN Returns(404, Error("User not found"), tbl, next, "closed",
                          <<"get_db_connection", "execute", "close">>)
             ELSE IF fault = "commit"
             THEN Raises(CommitFailed, tbl, next, "open",
                         <<"get_db_connection", "execute", "commit">>)
             ELSE Logs("INFO", "Deleted user", 200,
                       [message |-> "User deleted successfully"],
                       del.users, next, "closed",
                       <<"get_db_connection", "execute", "commit", "close">>)

\* get_logs(): `if level:` adds the WHERE clause for a non-empty level only.
get_logs_body(tbl, next, logTbl, limit, level, fault) ==
    IF fault = "connect"
    THEN Raises(ConnectFailed, tbl, next, "none", <<"get_db_connection">>)
    ELSE IF fault = "execute"
    THEN Raises(ExecuteFailed, tbl, next, "open", <<"get_db_connection", "execute">>)
    ELSE LET sel == SelectLogs(logTbl, level.given /\ level.s # "", level.s,
                               ParseLimit(limit))
         IN  IF sel.exc # NoExc
             THEN Raises(sel.exc, tbl, next, "open", <<"get_db_connection", "execute">>)
             ELSE Returns(200, [logs |-> sel.rows, count |-> Len(sel.rows)],
                          tbl, next, "closed", <<"get_db_connection", "execute", "close">>)

\* -------------------------------------------------------- except clauses
\* What a handler's except clauses do with an exception e that left its try
\* block: whether log_event is called, with what, and the response. home and
\* info have no try block ("handled" is FALSE).
Clause(handled, log, message, status, body) ==
    [handled |-> handled, log |-> log, level |-> "ERROR", message |-> message,
     status |-> status, body |-> body]

\* An IntegrityError clause that takes every integrity error for a duplicate.
IntegrityClauseConflict(e) ==
    Clause(TRUE, FALSE, "", 409, Error("Email already exists"))

\* except pymysql.err.IntegrityError of create_user and update_user.
IntegrityClause(e) ==
    IF HasDuplicateEntry(e)
    THEN Clause(TRUE, FALSE, "", 409, Error("Email already exists"))
    ELSE Clause(TRUE, FALSE, "", 500, Error(e.text))

\* An except Exception clause that forgets its log_event call.
GenericClauseSilent(message, e) == Clause(TRUE, FALSE, message, 500, Error(e.text))

\* except Exception, with the message its log_event call is given.
GenericClause(message, e) == Clause(TRUE, TRUE, message, 500, Error(e.text))

except_clause(op, e) ==
    CASE op = "health" ->
            Clause(TRUE, TRUE, "Health check failed", 500,
                   [status |-> "unhealthy", database |-> e.text])
      [] op = "get_users" -> GenericClause("Error retrieving users", e)
      [] op = "create_user" ->
            IF e.cls = "IntegrityError" THEN IntegrityClause(e)
            ELSE GenericClause("Error creating user", e)
      [] op = "get_user" -> GenericClause("Error retrieving user", e)
      [] op = "update_user" ->
            IF e.cls = "IntegrityError" THEN IntegrityClause(e)
            ELSE GenericClause("Error updating user", e)
      [] op = "delete_user" -> GenericClause("Error deleting user", e)
      [] op = "get_logs" -> Clause(TRUE, FALSE, "", 500, Error(e.text))
      [] OTHER -> Clause(FALSE, FALSE, "", 500, Error("Internal Server Error"))

\* ------------------------------------------------------------- a request
\* One log_event call as the run of a request records it.
Call(level, message, l) ==
    [level |-> level, message |-> message, conn |-> l.conn]

Leaked(conn) == IF conn = "open" THEN 1 ELSE 0

\* The whole of a handler from its try body t: the log_event call of the try
\* block, the except clause when the block (or that call) raised, and the
\* response. open counts the connections acquired for the request and not
\* closed when the handler returns.
Answer(op, t, logTbl, lf) ==
    LET l1 == log_event(logTbl, t.level, t.message, lf)
        called1 == t.kind = "log"
        logs1 == IF called1 THEN l1.logs ELSE logTbl
        calls1 == IF called1 THEN <<Call(t.level, t.message, l1)>> ELSE <<>>
        events1 == IF called1 THEN Append(t.events, "log_event") ELSE t.events
        open1 == Leaked(t.conn) + (IF called1 THEN Leaked(l1.conn) ELSE 0)
        raised == t.kind = "raise" \/ (called1 /\ l1.raised)
        e == IF t.kind = "raise" THEN t.exc ELSE LoggingFailed
        c == except_clause(op, e)
        l2 == log_event(logs1, c.level, c.message, lf)
        called2 == c.handled /\ c.log
        unhandled == ~c.handled \/ (called2 /\ l2.raised)
    IN  IF ~raised
        THEN [status |-> t.status, body |-> t.body, logs |-> logs1, events |-> events1,
              calls |-> calls1, open |-> open1, exc |-> NoExc]
        ELSE [status |-> IF unhandled THEN 500 ELSE c.status,
              body |-> IF unhandled THEN Error("Internal Server Error") ELSE c.body,
              logs |-> IF called2 THEN l2.logs ELSE logs1,
              events |-> IF called2 THEN Append(events1, "log_event") ELSE events1,
              calls |-> IF called2 THEN Append(calls1, Call(c.level, c.message, l2))
                                   ELSE calls1,
              open |-> open1 + (IF called2 THEN Leaked(l2.conn) ELSE 0),
              exc |-> e]

\* --------------------------------------------------------------- state
VARIABLES
    users,      \* the committed rows of the users table, by id
    nextId,     \* the AUTO_INCREMENT counter of users.id
    logs,       \* the committed rows of the logs table, oldest first
    strict,     \* whether the server runs in strict SQL mode
    req,        \* the request answered last
    resp,       \* its response: [status, body]
    run,        \* what its handler did: [events, calls, open, exc]
    deleted     \* the ids whose DELETE was answered 200 so far

vars == <<users, nextId, logs, strict, req, resp, run, deleted>>

Idle ==
    /\ users = <<>>
    /\ nextId = 1
    /\ strict \in BOOLEAN
    /\ req = Request("start", 0, NoBody, NoLimit, NoLevel, "none")
    /\ resp = [status |-> 0, body |-> Error("")]
    /\ run = [events |-> <<>>, calls |-> <<>>, open |-> 0, exc |-> NoExc]
    /\ deleted = {}

\* The process starts on the tables init_database has just created.
Init == Idle /\ logs = <<>>

\* The rows an earlier run of the service left in the logs table: the tables
\* survive restarts (CREATE TABLE IF NOT EXISTS).
OldRow(i) ==
    IF i = 1 THEN [level |-> "ERROR", message |-> "Health check failed"]
    ELSE [level |-> "INFO", message |-> "Home endpoint accessed"]

\* The process starts on a logs table that already holds InitLogRows rows.
InitOld == Idle /\ logs = [i \in 1..InitLogRows |-> OldRow(i)]

\* The try body of the handler the request r is routed to, on users table
\* tbl, counter next, SQL mode strictMode and logs table logTbl.
TryBody(r, tbl, next, strictMode, logTbl) ==
    CASE r.op = "home" -> home_body(tbl, next)
      [] r.op = "info" -> info_body(tbl, next)
      [] r.op = "health" -> health_body(tbl, next, r.fault)
      [] r.op = "get_users" -> get_users_body(tbl, next, r.fault)
      [] r.op = "create_user" -> create_user_body(tbl, next, strictMode, r.body, r.fault)
      [] r.op = "get_user" -> get_user_body(tbl, next, r.id, r.fault)
      [] r.op = "update_user" ->
            update_user_body(tbl, next, strictMode, r.id, r.body, r.fault)
      [] r.op = "delete_user" -> delete_user_body(tbl, next, r.id, r.fault)
      [] r.op = "get_logs" -> get_logs_body(tbl, next, logTbl, r.limit, r.level, r.fault)

\* What the request r is answered in the current state when log_event's
\* connection fails at lf.
Outcome(r, lf) == Answer(r.op, TryBody(r, users, nextId, strict, logs), logs, lf)

\* The request r answered, log_event failing at lf. The model answers no
\* request that would take the counter past MaxId + 1.
Handle(r, lf) ==
    LET t == TryBody(r, users, nextId, strict, logs)
        a == Answer(r.op, t, logs, lf)
    IN  /\ t.nextId <= MaxId + 1
        /\ req' = r
        /\ resp' = [status |-> a.status, body |-> a.body]
        /\ run' = [events |-> a.events, calls |-> a.calls, open |-> a.open, exc |-> a.exc]
        /\ users' = t.users
        /\ nextId' = t.nextId
        /\ logs' = a.logs
        /\ deleted' = IF r.op = "delete_user" /\ a.status = 200
                      THEN deleted \cup {r.id} ELSE deleted
        /\ UNCHANGED strict

\* ----------------------------------------------------------- the inputs
NameA == Str(<<"a">>)
EmailE == Str(<<"e">>)
EmailF == Str(<<"f">>)
Malformed == Body("malformed", None, None)
Object(name, email) == Body("object", name, email)

\* The inputs a specification draws its requests from: the bodies of POST and
\* of PUT, the ids in paths, the faults of the handler's connection when it
\* reads and when it writes, the faults of log_event's connection, the
\* arguments of GET /logs, and the size of the logs table at which the model
\* stops the handlers that write to it.
Inputs(bodies, ids, reads, writes, lfs, limits, levels, cap) ==
    [bodies |-> bodies, ids |-> ids, reads |-> reads, writes |-> writes,
     lfs |-> lfs, limits |-> limits, levels |-> levels, cap |-> cap]

LogRoom(in) == Len(logs) < in.cap

\* ------------------------------------------------------------- actions
Home(in) ==
    \E lf \in in.lfs :
        /\ LogRoom(in)
        /\ Handle(Request("home", 0, NoBody, NoLimit, NoLevel, "none"), lf)

Info(in) ==
    /\ Len(logs) <= in.cap
    /\ Handle(Request("info", 0, NoBody, NoLimit, NoLevel, "none"), "none")

Health(in) ==
    \E f \in in.reads \ {"execute"}, lf \in in.lfs :
        /\ LogRoom(in)
        /\ Handle(Request("health", 0, NoBody, NoLimit, NoLevel, f), lf)

GetUsers(in) ==
    \E f \in in.reads, lf \in in.lfs :
        /\ LogRoom(in)
        /\ Handle(Request("get_users", 0, NoBody, NoLimit, NoLevel, f), lf)

CreateUser(in) ==
    \E b \in in.bodies, f \in in.writes, lf \in in.lfs :
        /\ LogRoom(in)
        /\ Handle(Request("create_user", 0, b, NoLimit, NoLevel, f), lf)

GetUser(in) ==
    \E id \in in.ids, f \in in.reads, lf \in in.lfs :
        /\ LogRoom(in)
        /\ Handle(Request("get_user", id, NoBody, NoLimit, NoLevel, f), lf)

UpdateUserReq(in) ==
    \E id \in in.ids, b \in in.bodies, f \in in.writes, lf \in in.lfs :
        /\ LogRoom(in)
        /\ Handle(Request("update_user", id, b, NoLimit, NoLevel, f), lf)

DeleteUserReq(in) ==
    \E id \in in.ids, f \in in.writes, lf \in in.lfs :
        /\ LogRoom(in)
        /\ Handle(Request("delete_user", id, NoBody, NoLimit, NoLevel, f), lf)

\* GET /logs and /info never write to the logs table: the model answers them
\* on a full table too.
GetLogs(in) ==
    \E lim \in in.limits, lv \in in.levels, f \in in.reads :
        /\ Len(logs) <= in.cap
        /\ Handle(Request("get_logs", 0, NoBody, lim, lv, f), "none")

Serve(in) ==
    \/ Home(in)
    \/ Info(in)
    \/ Health(in)
    \/ GetUsers(in)
    \/ CreateUser(in)
    \/ GetUser(in)
    \/ UpdateUserReq(in)
    \/ DeleteUserReq(in)
    \/ GetLogs(in)

\* Every handler under every fault of its own connection and of log_event's,
\* on few bodies and one id.
FaultInputs ==
    Inputs({Malformed, NoBody, Object(NameA, EmailE), Object(NameA, None)},
           {1}, {"none", "connect", "execute"}, Faults, Faults,
           {NoLimit, Limit(-1)}, {NoLevel}, MaxNewLogs)

Next == Serve(FaultInputs)

Spec == Init /\ [][Next]_vars

\* The user handlers on every kind of body and on ids that exist, existed or
\* never did. log_event's connection fails throughout, so the logs table
\* stays as it is and the users table is what the behaviours explore.
UserInputs ==
    Inputs({Malformed, NoBody, Object(NameA, EmailE), Object(NameA, EmailF),
            Object(Str(LongText), EmailE), Object(Str(<<>>), EmailE),
            Object(NameA, None)},
           Ids, {"none", "connect"}, {"none", "connect", "commit"}, {"connect"},
           {NoLimit}, {NoLevel}, MaxNewLogs)

NextUsers == Serve(UserInputs)

SpecUsers == Init /\ [][NextUsers]_vars

\* GET /logs on every limit and level argument, over a logs table that holds
\* the rows of earlier runs and the rows the handlers add.
LogInputs ==
    Inputs({Object(NameA, EmailE)}, {1}, {"none", "connect", "execute"}, {"none"},
           {"none"},
           {NoLimit, BadLimit, Limit(-1), Limit(0), Limit(1), Limit(2)},
           {NoLevel, Level(""), Level("INFO"), Level("ERROR"), Level("DEBUG")},
           InitLogRows + MaxNewLogs)

NextLogs == Serve(LogInputs)

SpecLogs == InitOld /\ [][NextLogs]_vars

\* ------------------------------------------------------------ the claims
\* The handlers with a log_event call in a try block.
SixHandlers ==
    {"health", "get_users", "create_user", "get_user", "update_user", "delete_user"}

\* The handler's last call before it returned was log_event.
LastIsLogEvent ==
    run.events # <<>> /\ run.events[Len(run.events)] = "log_event"

\* An exception of the store left the try block of the request answered last.
StoreFailure ==
    run.exc.cls \in {"OperationalError", "IntegrityError", "DataError", "ProgrammingError"}

\* That exception was the uniqueness violation of users.email.
Conflict == run.exc = DuplicateEntry /\ req.op \in {"create_user", "update_user"}

\* log_event was called at ERROR for the request answered last.
RecordedError == \E k \in 1..Len(run.calls) : run.calls[k].level = "ERROR"

\* C6: log_event never raises, whichever of its steps fails: the response of
\* every request answered is the response the same request gets under every
\* other fate of log_event's connection (acquisition, INSERT or commit
\* failing, or none), no exception of log_event reaches an except clause, and
\* the users table is what the handler's own work left.
C6_LogEventBestEffort ==
    [][\A lf \in Faults :
          LET o == Outcome(req', lf)
          IN  /\ o.status = resp'.status
              /\ o.body = resp'.body
              /\ o.exc = run'.exc
              /\ o.exc # LoggingFailed
              /\ Len(o.calls) = Len(run'.calls)
              /\ \A k \in 1..Len(o.calls) :
                    ~log_event(logs, o.calls[k].level, o.calls[k].message, lf).raised
              /\ users' = TryBody(req', users, nextId, strict, logs).users]_vars

\* C6 witness: a user was created and answered 201 although the audit-log
\* write of that request failed.
C6_Witness ==
    /\ req.op = "create_user"
    /\ resp.status = 201
    /\ users # <<>>
    /\ Len(run.calls) = 1
    /\ run.calls[1].conn # "closed"
    /\ logs = <<>>

\* C7 as claimed: each of the seven handlers calls log_event as its last step
\* on every outcome, and home and info never call it and touch no store.
C7_Original ==
    /\ req.op \in SixHandlers \cup {"get_logs"} =>
          Len(run.calls) >= 1 /\ LastIsLogEvent
    /\ req.op \in {"home", "info"} => run.calls = <<>> /\ run.events = <<>>

\* The outcomes on which the six handlers call log_event: success, and a 500
\* that does not come from the IntegrityError clause.
Recorded ==
    \/ resp.status \in {200, 201}
    \/ resp.status = 500 /\ run.exc.cls # "IntegrityError"

\* C7 amended: health, get_users, create_user, get_user, update_user and
\* delete_user call log_event exactly once, as their last step, when they
\* answer 200/201 (at INFO) or answer 500 outside the IntegrityError clause
\* (at ERROR), and not at all when they answer 400, 404, 409 or the 500 of the
\* IntegrityError clause; get_logs and info never call it; home calls it once
\* and makes no other store access.
C7_Amended ==
    /\ req.op \in SixHandlers =>
          IF Recorded
          THEN /\ Len(run.calls) = 1
               /\ LastIsLogEvent
               /\ run.calls[1].level = (IF resp.status = 500 THEN "ERROR" ELSE "INFO")
          ELSE /\ run.calls = <<>>
               /\ resp.status \in {400, 404, 409, 500}
    /\ req.op \in {"get_logs", "info"} => run.calls = <<>>
    /\ req.op = "info" => run.events = <<>>
    /\ req.op = "home" => Len(run.calls) = 1 /\ run.events = <<"log_event">>

\* C7 witness: a commit that failed was answered 500 and recorded at ERROR as
\* the handler's last step.
C7_Witness ==
    /\ req.op = "delete_user"
    /\ run.exc = CommitFailed
    /\ resp.status = 500
    /\ Len(run.calls) = 1
    /\ run.calls[1].level = "ERROR"
    /\ LastIsLogEvent

C9_Health ==
    [][req'.op = "health" =>
          /\ (req'.fault = "none") <=>
                (resp'.status = 200 /\ resp'.body.status = "healthy")
          /\ req'.fault # "none" =>
                /\ resp'.status = 500
                /\ resp'.body.status = "unhealthy"
                /\ resp'.body.database # ""
          /\ Len(run'.calls) = 1
          /\ LastIsLogEvent'
          /\ run'.calls[1].level = (IF resp'.status = 200 THEN "INFO" ELSE "ERROR")
          /\ logs' = (IF run'.calls[1].conn = "closed"
                      THEN InsertLog(logs, run'.calls[1].level, run'.calls[1].message)
                      ELSE logs)]_vars

\* C9 witness: the store was unreachable, health answered 500 unhealthy and
\* called log_event at ERROR.
C9_Witness ==
    /\ req.op = "health"
    /\ req.fault = "connect"
    /\ resp.status = 500
    /\ resp.body.status = "unhealthy"
    /\ Len(run.calls) = 1
    /\ run.calls[1].level = "ERROR"

\* C10 as claimed: when a handler has returned, every connection acquired
\* for the request, by the handler or by log_event, has been closed.
C10_NoOpenConnection == run.open = 0

\* The request r is a POST /users with a non-empty name and a non-empty email
\* that no row of tbl holds, and the store fails it nowhere.
ValidCreate(r, tbl) ==
    /\ r.op = "create_user"
    /\ r.fault = "none"
    /\ r.body.kind = "object"
    /\ Truthy(r.body.name)
    /\ Truthy(r.body.email)
    /\ ~EmailTaken(tbl, r.body.email.s, 0)

\* The name and the email of the body of r fit the columns they go to.
FitsColumns(r) ==
    Len(r.body.name.s) <= NameMax /\ Len(r.body.email.s) <= EmailMax

\* This step answered 201 with an id no row had and none ever had, and the
\* table now holds the request's name and email under it.
CreatedAsGiven ==
    /\ resp'.status = 201
    /\ resp'.body.user_id \notin DOMAIN users
    /\ resp'.body.user_id >= nextId
    /\ resp'.body.user_id \in DOMAIN users'
    /\ users'[resp'.body.user_id] =
          [name |-> req'.body.name.s, email |-> req'.body.email.s]

\* This step left every row alone but the one a PUT or DELETE was aimed at.
RowsKept ==
    \A id \in DOMAIN users :
        ~(req'.op \in {"update_user", "delete_user"} /\ req'.id = id) =>
            id \in DOMAIN users' /\ users'[id] = users[id]

\* A GET of an existing id, the store reachable, answers 200 with its row.
GetReturnsRow ==
    (req'.op = "get_user" /\ req'.fault = "none" /\ req'.id \in DOMAIN users) =>
        /\ resp'.status = 200
        /\ resp'.body.user = [found |-> TRUE, id |-> req'.id,
                              name |-> users[req'.id].name,
                              email |-> users[req'.id].email]

\* C1 as claimed: with the store reachable, every POST /users with a
\* non-empty name and a non-empty unused email is answered 201 with a new id
\* under which the table holds exactly that name and email; no request but a
\* PUT or DELETE of that id changes the row; and a GET of the id answers 200
\* with the row.
C1_Original ==
    [][/\ ValidCreate(req', users) => CreatedAsGiven
       /\ RowsKept
       /\ GetReturnsRow]_vars

\* C1 amended: the same for every non-empty name and non-empty unused email
\* of at most 100 characters each (the width of the VARCHAR(100) columns).
C1_Amended ==
    [][/\ (ValidCreate(req', users) /\ FitsColumns(req')) => CreatedAsGiven
       /\ RowsKept
       /\ GetReturnsRow]_vars

\* C1 witness: a GET answered 200 with the name and email a second POST
\* created under id 2.
C1_Witness ==
    /\ req.op = "get_user"
    /\ req.id = 2
    /\ resp.status = 200
    /\ resp.body.user.name = <<"a">>
    /\ resp.body.user.email = <<"e">>
    /\ nextId = 3

\* The request r is a POST /users whose email a row of tbl holds.
DuplicateCreate(r, tbl) ==
    /\ r.op = "create_user"
    /\ r.body.kind = "object"
    /\ ~r.body.email.null
    /\ EmailTaken(tbl, r.body.email.s, 0)

\* This step answered 409 'Email already exists'.
AnsweredConflict ==
    resp'.status = 409 /\ resp'.body = Error("Email already exists")

Missing(r, tbl) ==
    /\ r.op \in {"get_user", "update_user", "delete_user"}
    /\ r.fault = "none"
    /\ r.id \notin DOMAIN tbl

\* This step answered 404 'User not found'.
AnsweredNotFound ==
    resp'.status = 404 /\ resp'.body = Error("User not found")

\* C3 as claimed: with the store reachable, GET, PUT and DELETE of an id no
\* user has each answer 404 'User not found', whatever the body of the PUT.
C3_Original == [][Missing(req', users) => AnsweredNotFound]_vars

\* C3 amended: with the store reachable, GET and DELETE of an id no user has,
\* and PUT of such an id with any non-empty JSON object as its body, answer
\* 404 'User not found' and leave the users table as it was.
C3_Amended ==
    [][(/\ Missing(req', users)
        /\ req'.op = "update_user" => req'.body.kind = "object") =>
            AnsweredNotFound /\ users' = users]_vars

\* C3 witness: a PUT without an email for an id that never existed was
\* answered 404 while other users existed.
C3_Witness ==
    /\ req.op = "update_user"
    /\ req.id = MaxId + 1
    /\ req.body = Object(NameA, None)
    /\ resp.status = 404
    /\ users # <<>>

\* C4: once DELETE of an id has been answered 200, the id is in no row again,
\* and every later GET and DELETE of it that the store does not fail answers
\* 404 'User not found'.
C4_DeleteIsFinal ==
    [][/\ (/\ req'.op \in {"get_user", "delete_user"}
           /\ req'.fault = "none"
           /\ req'.id \in deleted) => AnsweredNotFound
       /\ deleted' \cap DOMAIN users' = {}]_vars

\* C4 witness: a second DELETE of a deleted id was answered 404 after another
\* user had been created.
C4_Witness ==
    /\ req.op = "delete_user"
    /\ req.id \in deleted
    /\ resp.status = 404
    /\ users # <<>>

\* The limit a GET /logs request asks for: its limit argument, 100 without.
AskedLimit(arg) == IF arg.given /\ arg.int THEN arg.n ELSE DefaultLimit

\* Every row of a sequence has the level.
AllAtLevel(rows, level) == \A k \in 1..Len(rows) : rows[k].level = level

\* GET /logs was answered 200.
LogsAnswered == req.op = "get_logs" /\ resp.status = 200

\* C5 as claimed: a 200 response of GET /logs holds at most limit entries
\* (100 without a limit), its count is their number, and when the request
\* has a level argument every entry has exactly that level.
C5_Original ==
    LogsAnswered =>
        /\ Len(resp.body.logs) <= AskedLimit(req.limit)
        /\ resp.body.count = Len(resp.body.logs)
        /\ req.level.given => AllAtLevel(resp.body.logs, req.level.s)

\* C5 amended: a 200 response of GET /logs holds at most limit entries (100
\* when the limit is absent or no integer), its count is their number, and
\* when the request has a non-empty level argument every entry has exactly
\* that level; an empty level argument filters nothing.
C5_Amended ==
    LogsAnswered =>
        /\ Len(resp.body.logs) <= AskedLimit(req.limit)
        /\ resp.body.count = Len(resp.body.logs)
        /\ (req.level.given /\ req.level.s # "") =>
              AllAtLevel(resp.body.logs, req.level.s)
        /\ (req.level.given /\ req.level.s = "") =>
              Len(resp.body.logs) = IF Len(logs) < AskedLimit(req.limit)
                                    THEN Len(logs) ELSE AskedLimit(req.limit)

\* C5 witness: the table held more than 100 rows, two of them at ERROR, and
\* GET /logs?limit=1&level=ERROR was answered one ERROR row.
C5_Witness ==
    /\ LogsAnswered
    /\ req.limit = Limit(1)
    /\ req.level = Level("ERROR")
    /\ Len(logs) > DefaultLimit
    /\ Len(WithLevel(logs, "ERROR")) = 2
    /\ resp.body.count = 1
    /\ resp.body.logs[1].level = "ERROR"

\* The request r is a POST /users whose body, parsed, has no name or no
\* email, or an empty one: an empty object, or an object with other keys.
LacksField(r) ==
    /\ r.op = "create_user"
    /\ r.body.kind \in {"empty", "object"}
    /\ ~Truthy(r.body.name) \/ ~Truthy(r.body.email)

\* This step answered 400 'Name and email are required'.
AnsweredRequired ==
    resp'.status = 400 /\ resp'.body = Error("Name and email are required")

\* The handler of this step acquired no connection, executed no statement
\* and called log_event not once, and the tables are as they were.
NoStoreAccess ==
    /\ run'.events = <<>>
    /\ run'.calls = <<>>
    /\ run'.open = 0
    /\ users' = users
    /\ nextId' = nextId
    /\ logs' = logs

\* C11 as claimed: every POST /users whose body lacks name or email, or has
\* either one empty, is answered 400 'Name and email are required' without a
\* connection acquired or a statement executed, whether or not the store is
\* reachable, and the users table stays as it was.
C11_Original == [][LacksField(req') => AnsweredRequired /\ NoStoreAccess]_vars

\* C11 amended: every POST /users whose body is a non-empty JSON object that
\* lacks name or email, or has either one empty, is answered 400 'Name and
\* email are required', and one whose body is the empty object is answered
\* 400 'No data provided'; either way no connection is acquired and no
\* statement executed, whether or not the store is reachable, and the users
\* table stays as it was.
C11_Amended ==
    [][LacksField(req') =>
          /\ IF req'.body.kind = "object"
             THEN AnsweredRequired
             ELSE resp'.status = 400 /\ resp'.body = Error("No data provided")
          /\ NoStoreAccess]_vars

\* C11 witness: a POST without an email was answered 400 'Name and email are
\* required' while the store was unreachable and users existed.
C11_Witness ==
    /\ req.op = "create_user"
    /\ req.fault = "connect"
    /\ req.body = Object(NameA, None)
    /\ resp = [status |-> 400, body |-> Error("Name and email are required")]
    /\ run.events = <<>>
    /\ users # <<>>

\* The request r is a PUT /users/{id} of an id a row of tbl has, with a
\* non-empty JSON object as its body.
ExistingPut(r, tbl) ==
    /\ r.op = "update_user"
    /\ r.body.kind = "object"
    /\ r.id \in DOMAIN tbl

\* The email of the body of r, an absent one read as empty, is the email of
\* another row of tbl.
Collides(r, tbl) == EmailTaken(tbl, r.body.email.s, r.id)

\* The row of the request's id now holds the name and the email of its body,
\* an absent field as the empty string.
WrittenAsGiven ==
    /\ req'.id \in DOMAIN users'
    /\ users'[req'.id] = [name |-> req'.body.name.s, email |-> req'.body.email.s]

\* C12 as claimed: a PUT of an existing id with a non-empty JSON body is
\* answered 500 when the store is unreachable and, when the store fails
\* nothing, 409 when its email is the email of another row and 200 otherwise;
\* answered 200, it has written both fields as supplied, an absent one as
\* empty, which is what a GET of the id then returns.
C12_Original ==
    [][ExistingPut(req', users) =>
          /\ req'.fault = "connect" => resp'.status = 500
          /\ req'.fault = "none" =>
                resp'.status = (IF Collides(req', users) THEN 409 ELSE 200)
          /\ resp'.status = 200 => WrittenAsGiven]_vars

\* The requests that write to the users table.
WriteHandlers == {"create_user", "update_user", "delete_user"}

\* conn.commit() returned in the handler of this step: the handler went on
\* to conn.close().
CommitReturned ==
    \E k \in 1..(Len(run'.events) - 1) :
        run'.events[k] = "commit" /\ run'.events[k + 1] = "close"

\* C13: a create, update or delete request is answered 200, 201, 400, 404,
\* 409 or 500; answered anything but 200 or 201, it leaves the users table
\* exactly as it was; and once conn.commit() has returned the answer is 200
\* or 201, whatever becomes of the log_event call that follows, so that no
\* 500 is returned after the write was committed.
C13_FailedWriteKeepsTable ==
    [][req'.op \in WriteHandlers =>
          /\ resp'.status \in {200, 201, 400, 404, 409, 500}
          /\ resp'.status \in {400, 404, 409, 500} => users' = users
          /\ CommitReturned => resp'.status \in {200, 201}
          /\ users' # users => CommitReturned]_vars

\* C13 witness: the commit of a DELETE failed, the request was answered 500
\* and the row is still in the table.
C13_Witness ==
    /\ req.op = "delete_user"
    /\ req.fault = "commit"
    /\ run.exc = CommitFailed
    /\ resp.status = 500
    /\ req.id \in DOMAIN users

====
